---------------------------- MODULE Spec2Model ----------------------------
(***************************************************************************)
(* Model of app.py, the Streamlit travel-itinerary planner.                *)
(*                                                                         *)
(* A text is a sequence of tokens; the token " " is whitespace.  A Python  *)
(* dict is a function whose domain is its set of keys, so a key that was   *)
(* never written is absent from the domain (dict.get(k, d) then yields d). *)
(* One step of the model is one Streamlit script run triggered by one      *)
(* widget: the form's submit button, one of the five extras buttons, or    *)
(* the chat input.                                                         *)
(*                                                                         *)
(* state and expanded_section are the program's st.session_state.  last    *)
(* and asked are history variables: what the last script run was given and *)
(* returned, and the questions asked since the last submission.  Each is   *)
(* kept when recording names it.                                           *)
(***************************************************************************)
EXTENDS Integers, Sequences, FiniteSets, TLC

VARIABLES state, expanded_section, last, asked, recording

vars == <<state, expanded_section, last, asked, recording>>

-----------------------------------------------------------------------------
(* Bounds *)

MaxChat == 2        \* most chat questions asked about one itinerary
MaxOrganic == 6     \* longest list of organic results of a search response

-----------------------------------------------------------------------------
(* Python helpers *)

Get(d, k, default) == IF k \in DOMAIN d THEN d[k] ELSE default

\* dict.update: keys of r overwrite, keys of d that r lacks are kept
Update(d, r) == [k \in (DOMAIN d) \cup (DOMAIN r) |-> IF k \in DOMAIN r THEN r[k] ELSE d[k]]

Restrict(d, keys) == [k \in (DOMAIN d) \cap keys |-> d[k]]

Take(s, n) == IF Len(s) <= n THEN s ELSE SubSeq(s, 1, n)

RECURSIVE lstrip(_)
lstrip(t) == IF t = <<>> THEN <<>>
             ELSE IF Head(t) = " " THEN lstrip(Tail(t)) ELSE t

RECURSIVE rstrip(_)
rstrip(t) == IF t = <<>> THEN <<>>
             ELSE IF t[Len(t)] = " " THEN rstrip(SubSeq(t, 1, Len(t) - 1)) ELSE t

strip(t) == rstrip(lstrip(t))

\* Tokens of a provider reply that json.loads can meet.
StrLit == "\"hi\""            \* the JSON string literal "hi"
KeyChat == "\"chat_response\":"
KeyOther == "\"other\":"
JsonKeys == {KeyChat, KeyOther}

KeyName(tok) == IF tok = KeyChat THEN "chat_response" ELSE "other"

RemoveWs(t) == SelectSeq(t, LAMBDA c : c # " ")

\* json.loads: whitespace between tokens is insignificant; the value is an
\* object (a dict), another JSON value, or the text is not JSON at all.
json_loads(t) ==
    LET u == RemoveWs(t) IN
    IF u = <<"{", "}">> THEN [kind |-> "dict", fields |-> <<>>]
    ELSE IF Len(u) = 4 /\ u[1] = "{" /\ u[2] \in JsonKeys /\ u[3] = StrLit /\ u[4] = "}"
         THEN [kind |-> "dict", fields |-> [k \in {KeyName(u[2])} |-> <<"hi">>]]
    ELSE IF u \in {<<"1">>, <<StrLit>>, <<"[", "]">>, <<"[", "1", "]">>, <<"null">>}
         THEN [kind |-> "other", fields |-> <<>>]
    ELSE [kind |-> "JSONDecodeError", fields |-> <<>>]

-----------------------------------------------------------------------------
(* The two providers.  A call either returns or raises. *)

Returned(t) == [ok |-> TRUE, content |-> t, err |-> ""]
Raised(e) == [ok |-> FALSE, content |-> <<>>, err |-> e]

\* what a function of app.py hands back: a dict, or an exception leaving it
Return(d) == [raised |-> FALSE, value |-> d, exc |-> ""]
Escape(e) == [raised |-> TRUE, value |-> <<>>, exc |-> e]

-----------------------------------------------------------------------------
(* Session state *)

GraphStateKeys == {"preferences_text", "preferences", "itinerary", "activity_suggestions",
                   "useful_links", "weather_forecast", "packing_list", "food_culture_info",
                   "chat_history", "user_question", "chat_response"}

InitialState == [preferences_text |-> <<>>, preferences |-> <<>>, itinerary |-> <<>>,
                 activity_suggestions |-> <<>>, useful_links |-> <<>>,
                 weather_forecast |-> <<>>, packing_list |-> <<>>,
                 food_culture_info |-> <<>>, chat_history |-> <<>>,
                 user_question |-> <<>>, chat_response |-> <<>>]

-----------------------------------------------------------------------------
(* Prompts: the request a generator sends, as the tuple of what it reads *)

ChatPrompt(s) == <<"chat", s["preferences"], s["itinerary"], s["user_question"]>>

LinksQuery(s) == <<"links", Get(s["preferences"], "destination", ""),
                   Get(s["preferences"], "month", "")>>

FoodPrompt(s) == <<"food", Get(s["preferences"], "destination", ""),
                   Get(s["preferences"], "budget_type", "mid-range")>>

ItineraryPrompt(s) == <<"itinerary", s["preferences"]>>

PackingPrompt(s) == <<"packing", Get(s["preferences"], "holiday_type", "general"),
                      Get(s["preferences"], "destination", ""),
                      Get(s["preferences"], "month", ""),
                      Get(s["preferences"], "duration", 0)>>

ActivitiesPrompt(s) == <<"activities", s["preferences"], s["itinerary"]>>

WeatherPrompt(s) == <<"weather", Get(s["preferences"], "destination", ""),
                      Get(s["preferences"], "month", "")>>

-----------------------------------------------------------------------------
(* The seven operations.  `out` is what llm.invoke(prompt) or                *)
(* search.results(query) does for the request the operation sends.           *)

chat_node(s, out) ==
    IF ~out.ok THEN Return([chat_response |-> <<>>, warning |-> <<out.err>>])
    ELSE LET result == out.content
             parsed == json_loads(strip(result))
         IN  IF parsed.kind = "other"
             THEN \* parsed.get raises AttributeError, caught by the outer except
                  Return([chat_response |-> <<>>, warning |-> <<"AttributeError">>])
             ELSE LET response == IF parsed.kind = "JSONDecodeError" THEN strip(result)
                                  ELSE Get(parsed.fields, "chat_response", strip(result))
                      chat_entry == [question |-> s["user_question"], response |-> response]
                      chat_history == Append(Get(s, "chat_history", <<>>), chat_entry)
                  IN  Return([chat_response |-> response, chat_history |-> chat_history])

Link(result) == [title |-> Get(result, "title", "No title"), link |-> Get(result, "link", "")]

\* faulty variant: the slice keeps one result too many
fetch_useful_links_TakesSix(s, ctor, out) ==
    IF ~ctor.ok THEN Escape(ctor.err)
    ELSE IF ~out.ok
         THEN Return([useful_links |-> <<>>,
                      warning |-> <<"Failed to fetch links: ", out.err>>])
         ELSE LET organic_results == Get(out.content, "organic", <<>>)
                  first == Take(organic_results, 6)
              IN  Return([useful_links |-> [i \in 1..Len(first) |-> Link(first[i])]])

fetch_useful_links(s, ctor, out) ==
    IF ~ctor.ok THEN Escape(ctor.err)     \* GoogleSerperAPIWrapper() is outside the try
    ELSE IF ~out.ok
         THEN Return([useful_links |-> <<>>,
                      warning |-> <<"Failed to fetch links: ", out.err>>])
         ELSE LET search_results == out.content
                  organic_results == Get(search_results, "organic", <<>>)
                  first == Take(organic_results, 5)
                  links == [i \in 1..Len(first) |-> Link(first[i])]
              IN  Return([useful_links |-> links])

food_culture_recommender(s, out) ==
    IF out.ok THEN Return([food_culture_info |-> strip(out.content)])
    ELSE Return([food_culture_info |-> <<>>, warning |-> <<out.err>>])

generate_itinerary(s, out) ==
    IF out.ok THEN Return([itinerary |-> strip(out.content)])
    ELSE Return([itinerary |-> <<>>, warning |-> <<out.err>>])

\* faulty variant: the packing list is made to follow the forecast the session holds
packing_list_generator_ReadsForecast(s, out) ==
    IF out.ok THEN Return([packing_list |-> strip(out.content) \o s["weather_forecast"]])
    ELSE Return([packing_list |-> <<>>, warning |-> <<out.err>>])

packing_list_generator(s, out) ==
    IF out.ok THEN Return([packing_list |-> strip(out.content)])
    ELSE Return([packing_list |-> <<>>, warning |-> <<out.err>>])

recommend_activities(s, out) ==
    IF out.ok THEN Return([activity_suggestions |-> strip(out.content)])
    ELSE Return([activity_suggestions |-> <<>>, warning |-> <<out.err>>])

weather_forecaster(s, out) ==
    IF out.ok THEN Return([weather_forecast |-> strip(out.content)])
    ELSE Return([weather_forecast |-> <<>>, warning |-> <<out.err>>])

\* The compiled workflow: the single node generate_itinerary, then END.  The
\* graph's channels are the keys of GraphState: input keys and node output keys
\* outside GraphState (such as "warning") are not channels and are dropped; the
\* value returned holds every channel that was written.
graph_invoke(s, out) ==
    LET node == generate_itinerary(Restrict(s, GraphStateKeys), out)
    IN  Update(Restrict(s, GraphStateKeys), Restrict(node.value, GraphStateKeys))

-----------------------------------------------------------------------------
(* Inputs *)

Destinations == {"Lisbon", "Oslo"}

\* the values of the form's widgets at the time of a submission
Forms == {[destination |-> d, month |-> "May", duration |-> 5, num_people |-> "2",
           accommodation_type |-> "Hotel", holiday_type |-> "Beach",
           budget_type |-> "Luxury", visa_status_options |-> "Visa required",
           comments |-> ""] : d \in Destinations}

Questions == {"q1", "q2"}

Errors == {"quota"}

LlmTexts == {<<" ", "A", " ">>}

LlmOutcomes == {Returned(t) : t \in LlmTexts} \cup {Raised(e) : e \in Errors}

\* replies of the model to a chat prompt: plain text, the JSON object asked
\* for, and a JSON value that is no object
ChatTexts == {<<" ", "hi">>, <<"{", KeyChat, StrLit, "}">>, <<"1">>}

ChatOutcomes == {Returned(t) : t \in ChatTexts} \cup {Raised(e) : e \in Errors}

SearchResults == {[organic |-> <<[title |-> "T1", link |-> "L1"], [link |-> "L2"]>>],
                  [searchParameters |-> "q"]}

SearchOutcomes == {Returned(r) : r \in SearchResults} \cup {Raised(e) : e \in Errors}

\* GoogleSerperAPIWrapper() validates its environment when constructed
CtorOutcomes == {Returned(<<>>), Raised("validation error")}

-----------------------------------------------------------------------------
(* Handlers of the script: each yields the session after the script run *)

Preferences(form) ==
    [destination |-> form.destination, month |-> form.month, duration |-> form.duration,
     num_people |-> form.num_people, holiday_type |-> form.holiday_type,
     budget_type |-> form.budget_type, accommodation |-> form.accommodation_type,
     visa_status_options |-> form.visa_status_options, comments |-> form.comments]

PreferencesText(form) ==
    <<"Destination: ", form.destination, "Month: ", form.month, "Duration: ",
      form.duration, "People: ", form.num_people, "Type: ", form.holiday_type,
      "Budget: ", form.budget_type, "Accommodation: ", form.accommodation_type,
      "Visa: ", form.visa_status_options, "Comments: ", form.comments>>

\* beginning of the layout: the expander flag is created with the first itinerary
Layout(s, exp) == IF s["itinerary"] # <<>> /\ exp = "absent" THEN "None" ELSE exp

\* the session a handler leaves, with what its script run did: ret is what the
\* operation returned (or the exception that left it), called tells that the
\* handler went to the provider (Links: began by constructing the search
\* client), banner is the message shown
Session(s, exp, ret, called, banner) ==
    [state |-> s, expanded_section |-> exp, ret |-> ret, called |-> called,
     banner |-> banner]

\* faulty variant: the reset forgets the transcript
SubmitHandler_KeepsTranscript(s, exp, form, out) ==
    LET s1 == Update(s, [preferences_text |-> PreferencesText(form),
                         preferences |-> Preferences(form),
                         user_question |-> <<>>,
                         chat_response |-> <<>>, activity_suggestions |-> <<>>,
                         useful_links |-> <<>>, weather_forecast |-> <<>>,
                         packing_list |-> <<>>, food_culture_info |-> <<>>])
        s2 == Update(s1, graph_invoke(s1, out))
    IN  Session(s2, Layout(s2, exp), generate_itinerary(s1, out), TRUE,
                IF s2["itinerary"] # <<>> THEN "success" ELSE "error")

\* the node generate_itinerary returns its dict to the graph; the handler
\* merges what graph.invoke returns
SubmitHandler(s, exp, form, out) ==
    LET s1 == Update(s, [preferences_text |-> PreferencesText(form),
                         preferences |-> Preferences(form),
                         chat_history |-> <<>>, user_question |-> <<>>,
                         chat_response |-> <<>>, activity_suggestions |-> <<>>,
                         useful_links |-> <<>>, weather_forecast |-> <<>>,
                         packing_list |-> <<>>, food_culture_info |-> <<>>])
        result == graph_invoke(s1, out)
        s2 == Update(s1, result)
    IN  Session(s2, Layout(s2, exp), generate_itinerary(s1, out), TRUE,
                IF Get(result, "itinerary", <<>>) # <<>> THEN "success" ELSE "error")

Extras == {"activities", "links", "weather", "packing", "food_culture"}

Generator(a, s, ctor, out) ==
    CASE a = "activities" -> recommend_activities(s, out)
      [] a = "links" -> fetch_useful_links(s, ctor, out)
      [] a = "weather" -> weather_forecaster(s, out)
      [] a = "packing" -> packing_list_generator(s, out)
      [] a = "food_culture" -> food_culture_recommender(s, out)

\* the field of the session state a generator fills
Field(op) ==
    CASE op = "submit" -> "itinerary"
      [] op = "activities" -> "activity_suggestions"
      [] op = "links" -> "useful_links"
      [] op = "weather" -> "weather_forecast"
      [] op = "packing" -> "packing_list"
      [] op = "food_culture" -> "food_culture_info"
      [] op = "chat" -> "chat_response"

\* faulty variant: a button whose last click failed answers with the failure it
\* remembers, without asking the provider again
ExtrasButton_RemembersFailure(a, s, exp, ctor, out) ==
    IF exp = a /\ "warning" \in DOMAIN s /\ s[Field(a)] = <<>>
    THEN Session(s, a, Return([warning |-> s["warning"]]), FALSE, "")
    ELSE LET result == Generator(a, s, ctor, out)
         IN  IF result.raised THEN Session(s, exp, result, TRUE, "exception")
             ELSE Session(Update(s, result.value), a, result, TRUE, "")

\* a button's handler: an exception leaving the generator ends the script run
\* before the update
ExtrasButton(a, s, exp, ctor, out) ==
    LET result == Generator(a, s, ctor, out)
    IN  IF result.raised THEN Session(s, exp, result, TRUE, "exception")
        ELSE Session(Update(s, result.value), a, result, TRUE, "")

ChatInput(s, exp, user_input, out) ==
    LET s1 == [s EXCEPT !["user_question"] = <<user_input>>]
        result == chat_node(s1, out)
    IN  Session(Update(s1, result.value), exp, result, TRUE, "")

-----------------------------------------------------------------------------
(* The session as a state machine *)

NoOutcome == Returned(<<>>)

ExtrasFields == {"activity_suggestions", "useful_links", "weather_forecast",
                 "packing_list", "food_culture_info"}

\* what is remembered of the session a script run started from: its transcript,
\* and whether every extra, the transcript and the itinerary were filled in
Before(s) == [chat_history |-> s["chat_history"],
              full |-> /\ \A f \in ExtrasFields : s[f] # <<>>
                       /\ s["chat_history"] # <<>>
                       /\ s["itinerary"] # <<>>,
              preferences |-> s["preferences"]]

Start == [op |-> "start", input |-> <<>>, ctor |-> NoOutcome, out |-> NoOutcome,
          ret |-> Return(<<>>), called |-> FALSE, banner |-> "", key |-> <<>>,
          prior |-> "none", before |-> Before(InitialState)]

Init ==
    /\ state = InitialState
    /\ expanded_section = "absent"
    /\ last = Start
    /\ asked = <<>>
    /\ recording = {"last"}

\* whether the provider call of the run just made returned
Succeeded(l) == l.called /\ l.ctor.ok /\ l.out.ok

\* one script run: `sess` is the session the handler leaves, `key` the
\* (generator, preferences) pair of the provider call, <<>> for chat; `prior`
\* tells how the run before went when it was a request for the same pair
Run(op, input, ctor, out, sess, key) ==
    /\ state' = sess.state
    /\ expanded_section' = sess.expanded_section
    /\ last' = IF "last" \notin recording THEN last
                ELSE [op |-> op, input |-> input, ctor |-> ctor, out |-> out,
                      ret |-> sess.ret, called |-> sess.called, banner |-> sess.banner,
                      key |-> key,
                      prior |-> IF key = <<>> \/ last.key # key THEN "none"
                                ELSE IF Succeeded(last) THEN "ok" ELSE "failed",
                      before |-> Before(state)]
    /\ asked' = IF "asked" \notin recording THEN asked
                ELSE IF op = "submit" THEN <<>>
                ELSE IF op = "chat" THEN Append(asked, input) ELSE asked
    /\ UNCHANGED recording

\* the form is rendered in every script run
Submit ==
    /\ \E form \in Forms, out \in LlmOutcomes :
          Run("submit", form, NoOutcome, out,
              SubmitHandler(state, expanded_section, form, out),
              <<"itinerary", Preferences(form)>>)

\* the run of button a; the buttons are rendered once there is an itinerary
Button(a, ctor, out) ==
    Run(a, <<>>, ctor, out, ExtrasButton(a, state, expanded_section, ctor, out),
        <<a, state["preferences"]>>)

Activities ==
    /\ state["itinerary"] # <<>>
    /\ \E out \in LlmOutcomes : Button("activities", NoOutcome, out)

\* search.results is reached only when the client was constructed
Links ==
    /\ state["itinerary"] # <<>>
    /\ \E ctor \in CtorOutcomes :
          \E out \in IF ctor.ok THEN SearchOutcomes ELSE {NoOutcome} :
              Button("links", ctor, out)

Weather ==
    /\ state["itinerary"] # <<>>
    /\ \E out \in LlmOutcomes : Button("weather", NoOutcome, out)

Packing ==
    /\ state["itinerary"] # <<>>
    /\ \E out \in LlmOutcomes : Button("packing", NoOutcome, out)

FoodCulture ==
    /\ state["itinerary"] # <<>>
    /\ \E out \in LlmOutcomes : Button("food_culture", NoOutcome, out)

Chat ==
    /\ state["itinerary"] # <<>>
    /\ Len(asked) < MaxChat /\ Len(state["chat_history"]) < MaxChat
    /\ \E user_input \in Questions, out \in ChatOutcomes :
          Run("chat", user_input, NoOutcome, out,
              ChatInput(state, expanded_section, user_input, out), <<>>)

Next == Submit \/ Activities \/ Links \/ Weather \/ Packing \/ FoodCulture \/ Chat

Spec == Init /\ [][Next]_vars

\* the same session, the questions asked recorded too
InitChat ==
    /\ state = InitialState
    /\ expanded_section = "absent"
    /\ last = Start
    /\ asked = <<>>
    /\ recording = {"last", "asked"}

SpecChat == InitChat /\ [][Next]_vars

\* the same session, the history variables left alone
InitOrder ==
    /\ state = InitialState
    /\ expanded_section = "absent"
    /\ last = Start
    /\ asked = <<>>
    /\ recording = {}

SpecOrder == InitOrder /\ [][Next]_vars

-----------------------------------------------------------------------------
(* Vocabulary of the properties *)

GeneratorOps == {"submit"} \cup Extras

Operations == GeneratorOps \cup {"chat"}

IsPrefix(p, q) == Len(p) <= Len(q) /\ SubSeq(q, 1, Len(p)) = p

QuestionsOf(history) == [i \in 1..Len(history) |-> history[i].question]

\* the provider, or the construction of the search client, raised in the last run
ProviderFailed == last.op \in Operations /\ (~last.ctor.ok \/ ~last.out.ok)

-----------------------------------------------------------------------------
(* C1 *)

\* C1: a generator keyed on the preferences that is triggered again with the
\* same preferences right after a call that succeeded answers from the stored
\* result: the second run makes no provider call, so that no (generator,
\* preferences) pair ever sees two successful provider calls.
C1_SecondTriggerMakesNoCall ==
    (last.op \in {"submit", "links", "weather", "packing", "food_culture"}
        /\ last.prior = "ok")
    => ~last.called

-----------------------------------------------------------------------------
(* C2, C3 *)

\* C2: after K chat questions since the last submission the transcript holds
\* exactly K entries, in the order the questions were asked, and neither a chat
\* nor an extras run removes or reorders an entry that was there before it.
C2_TranscriptHasEveryQuestion ==
    /\ QuestionsOf(state["chat_history"]) = [i \in 1..Len(asked) |-> <<asked[i]>>]
    /\ last.op \in Extras \cup {"chat"}
          => IsPrefix(last.before.chat_history, state["chat_history"])

\* C3: when the provider call of the chat responder fails, the transcript still
\* gets an entry for the question that was asked.
C3_FailedChatLeavesAnEntry ==
    (last.op = "chat" /\ ~last.out.ok)
    => /\ Len(state["chat_history"]) = Len(last.before.chat_history) + 1
       /\ state["chat_history"][Len(state["chat_history"])].question = <<last.input>>

-----------------------------------------------------------------------------
(* C4 *)

EmptyValue(op) == <<>>     \* "" for a text, [] for the links

\* C4: a failure of a provider, the construction of the search client included,
\* never leaves the operation as an exception: the operation returns its empty
\* value together with a warning.
C4_FailureIsCaughtInTheOperation ==
    ProviderFailed
    => /\ ~last.ret.raised
       /\ Field(last.op) \in DOMAIN last.ret.value
       /\ last.ret.value[Field(last.op)] = EmptyValue(last.op)
       /\ "warning" \in DOMAIN last.ret.value

-----------------------------------------------------------------------------
(* C5 *)

\* C5: a failure is not remembered.  Every request to a generator, and so the
\* request that follows a failed call for the same generator and preferences,
\* goes to the provider again, and when that call succeeds the session state
\* holds the result the generator returned for it.
C5_FailureIsNotRemembered ==
    last.op \in GeneratorOps
    => /\ last.called
       /\ Succeeded(last)
             => /\ Field(last.op) \in DOMAIN last.ret.value
                /\ state[Field(last.op)] = last.ret.value[Field(last.op)]
                /\ last.op # "links" => state[Field(last.op)] = strip(last.out.content)

\* Weather clicked again after a click whose provider call failed
C5_Witness ==
    /\ last.op = "weather"
    /\ last.prior = "failed"
    /\ Succeeded(last)
    /\ state["weather_forecast"] = <<"A">>

-----------------------------------------------------------------------------
(* C6 *)

\* C6: a reply that is not a JSON object carrying "chat_response" (no JSON at
\* all, or a JSON number, string, list or null) is answered with the trimmed
\* reply itself, and an entry with that response is appended to the transcript;
\* a JSON object with the field is answered with the field's value.
C6_ChatFallsBackToTheTrimmedReply ==
    (last.op = "chat" /\ last.out.ok)
    => LET raw == last.out.content
           parsed == json_loads(strip(raw))
           structured == parsed.kind = "dict" /\ "chat_response" \in DOMAIN parsed.fields
           expected == IF structured THEN parsed.fields["chat_response"] ELSE strip(raw)
       IN  /\ ~last.ret.raised
           /\ "chat_response" \in DOMAIN last.ret.value
           /\ last.ret.value["chat_response"] = expected
           /\ state["chat_history"] =
                 Append(last.before.chat_history,
                        [question |-> <<last.input>>, response |-> expected])

-----------------------------------------------------------------------------
(* C8 *)

\* C8: when the submission handler has finished, whether the generation
\* succeeded or failed, the five extras and the transcript are empty, the
\* preferences are the submitted form's values, and the itinerary is the newly
\* generated text, trimmed, or empty when the generation failed.
C8_SubmissionResetsTheSession ==
    last.op = "submit"
    => /\ \A f \in ExtrasFields : state[f] = <<>>
       /\ state["chat_history"] = <<>>
       /\ state["user_question"] = <<>> /\ state["chat_response"] = <<>>
       /\ state["preferences"] = Preferences(last.input)
       /\ state["preferences_text"] = PreferencesText(last.input)
       /\ state["itinerary"] = IF last.out.ok THEN strip(last.out.content) ELSE <<>>

\* a submission of other preferences on a session that had an itinerary, all
\* five extras and a transcript
C8_Witness ==
    /\ last.op = "submit"
    /\ last.before.full
    /\ last.before.preferences # state["preferences"]
    /\ state["itinerary"] # <<>>

-----------------------------------------------------------------------------
(* C9 *)

\* C9: a warning in the session state is the warning of the most recent
\* operation: once an operation has completed without a warning, the session
\* state carries none.
C9_WarningBelongsToTheLastOperation ==
    "warning" \in DOMAIN state
    => /\ "warning" \in DOMAIN last.ret.value
       /\ last.ret.value["warning"] = state["warning"]

-----------------------------------------------------------------------------
(* C7: fetch_useful_links alone, over every search response *)

ResultKinds == {[title |-> "T", link |-> "L"], [title |-> "T"], [link |-> "L"], <<>>}

AllSearchResults ==
    {[searchParameters |-> "q"]} \cup
    {[organic |-> o] : o \in UNION {[1..n -> ResultKinds] : n \in 0..MaxOrganic}}

\* a session with an itinerary, and the search response about to be received
LinksInit ==
    /\ \E form \in Forms :
          state = SubmitHandler(InitialState, "absent", form,
                                Returned(<<" ", "A", " ">>)).state
    /\ expanded_section = "None"
    /\ asked = <<>>
    /\ recording = {"last"}
    /\ \E out \in {Returned(r) : r \in AllSearchResults} \cup {Raised(e) : e \in Errors} :
          last = [Start EXCEPT !.op = "response", !.out = out]

FetchLinks ==
    /\ last.op = "response"
    /\ state["itinerary"] # <<>>
    /\ Button("links", NoOutcome, last.out)

SpecLinks == LinksInit /\ [][FetchLinks]_vars

Min(a, b) == IF a <= b THEN a ELSE b

\* C7: a response with n organic results yields exactly the first min(n, 5) of
\* them, in their order, each as a record of exactly a title ("No title" when
\* the result has none) and a link ("" when it has none); a response without
\* an "organic" field yields the empty list.
C7_LinksAreTheFirstFiveResults ==
    (last.op = "links" /\ Succeeded(last))
    => LET response == last.out.content
           links == state["useful_links"]
       IN  IF "organic" \notin DOMAIN response THEN links = <<>>
           ELSE LET organic == response["organic"]
                IN  /\ Len(links) = Min(Len(organic), 5)
                    /\ \A i \in 1..Len(links) :
                          /\ DOMAIN links[i] = {"title", "link"}
                          /\ links[i]["title"] = IF "title" \in DOMAIN organic[i]
                                                 THEN organic[i]["title"] ELSE "No title"
                          /\ links[i]["link"] = IF "link" \in DOMAIN organic[i]
                                                THEN organic[i]["link"] ELSE ""

\* six organic results, the second without a title, the third without a link
C7_Witness ==
    /\ last.op = "links" /\ Succeeded(last)
    /\ "organic" \in DOMAIN last.out.content
    /\ Len(last.out.content["organic"]) = 6
    /\ Len(state["useful_links"]) = 5
    /\ state["useful_links"][2] = [title |-> "No title", link |-> "L"]
    /\ state["useful_links"][3] = [title |-> "T", link |-> ""]

-----------------------------------------------------------------------------
(* C10: two extras in either order, against a provider whose outcome is a  *)
(* fixed function of the request                                           *)

Prompt(a, s) ==
    CASE a = "activities" -> ActivitiesPrompt(s)
      [] a = "links" -> LinksQuery(s)
      [] a = "weather" -> WeatherPrompt(s)
      [] a = "packing" -> PackingPrompt(s)
      [] a = "food_culture" -> FoodPrompt(s)

\* what the provider does for a request: the search client is constructed
\* (ctor) and the call returns or raises (out)
Reply(ctor, out) == [ctor |-> ctor, out |-> out]

OutcomesOf(a) ==
    IF a = "links"
    THEN {Reply(NoOutcome, o) : o \in SearchOutcomes}
         \cup {Reply(c, NoOutcome) : c \in {c \in CtorOutcomes : ~c.ok}}
    ELSE {Reply(NoOutcome, o) : o \in LlmOutcomes}

\* the provider that answers request pa with oa, request pb with ob
Provider(pa, oa, pb, ob, p) ==
    IF p = pa THEN oa ELSE IF p = pb THEN ob
    ELSE Reply(NoOutcome, Raised("unknown request"))

\* the extras in the order of their buttons
ExtrasOrder == <<"activities", "links", "weather", "packing", "food_culture">>

ExtrasPairs == {p \in (1..Len(ExtrasOrder)) \X (1..Len(ExtrasOrder)) : p[1] < p[2]}

\* the session after button a is clicked in session `sess`
Click(a, sess, pa, oa, pb, ob) ==
    LET reply == Provider(pa, oa, pb, ob, Prompt(a, sess.state))
    IN  ExtrasButton(a, sess.state, sess.expanded_section, reply.ctor, reply.out)

\* the sessions along a then b and along b then a, from the current session
EitherOrder(a, b, oa, ob) ==
    LET here == Session(state, expanded_section, Return(<<>>), FALSE, "")
        pa == Prompt(a, state)
        pb == Prompt(b, state)
        A == Click(a, here, pa, oa, pb, ob)
        B == Click(b, here, pa, oa, pb, ob)
    IN  [A |-> A, AB |-> Click(b, A, pa, oa, pb, ob),
         B |-> B, BA |-> Click(a, B, pa, oa, pb, ob)]

\* every key of the session state but the field of action a and the warning
Untouched(a, s, t) == \A k \in GraphStateKeys \ {Field(a)} : t[k] = s[k]

EachLeavesTheRestAlone(a, b, r) ==
    /\ Untouched(a, state, r.A.state) /\ Untouched(b, r.A.state, r.AB.state)
    /\ Untouched(b, state, r.B.state) /\ Untouched(a, r.B.state, r.BA.state)

\* C10 as stated: any two distinct extras leave the same session state in
\* either order, and each leaves preferences, itinerary, transcript and the
\* other four extras unchanged.
C10_SameSessionInEitherOrder ==
    state["itinerary"] # <<>>
    => \A p \in ExtrasPairs :
          \A oa \in OutcomesOf(ExtrasOrder[p[1]]), ob \in OutcomesOf(ExtrasOrder[p[2]]) :
             LET r == EitherOrder(ExtrasOrder[p[1]], ExtrasOrder[p[2]], oa, ob)
             IN  /\ r.AB.state = r.BA.state
                 /\ r.AB.expanded_section = r.BA.expanded_section
                 /\ EachLeavesTheRestAlone(ExtrasOrder[p[1]], ExtrasOrder[p[2]], r)

\* C10, amended: any two distinct extras leave the same preferences, itinerary,
\* transcript and extras (every key of the session state but "warning") in
\* either order, and each leaves every such key but its own unchanged.
C10_SameFieldsInEitherOrder ==
    state["itinerary"] # <<>>
    => \A p \in ExtrasPairs :
          \A oa \in OutcomesOf(ExtrasOrder[p[1]]), ob \in OutcomesOf(ExtrasOrder[p[2]]) :
             LET r == EitherOrder(ExtrasOrder[p[1]], ExtrasOrder[p[2]], oa, ob)
             IN  /\ Restrict(r.AB.state, GraphStateKeys) = Restrict(r.BA.state, GraphStateKeys)
                 /\ EachLeavesTheRestAlone(ExtrasOrder[p[1]], ExtrasOrder[p[2]], r)

\* Weather has just run on a session where Links had filled its field
C10_Witness ==
    /\ expanded_section = "weather" /\ state["weather_forecast"] # <<>>
    /\ state["useful_links"] # <<>>
    /\ state["chat_history"] # <<>>
    /\ "warning" \in DOMAIN state

=============================================================================
